---- MODULE Spec2Model ----
(***************************************************************************)
(* Model of the YJIT runtime-support layer (yjit.c) and of the MMTk string *)
(* buffer adapter (mmtk_gc_impl.c).                                        *)
(*                                                                         *)
(*   Spec     : execution contexts compiling, invalidating and reading     *)
(*              the entry pointer of code units under the VM lock          *)
(*   SpecSM   : the same, with callers that follow the per-code-unit       *)
(*              state machine                                              *)
(*   SpecStr  : attaching and reallocating string buffers on a heap whose  *)
(*              collector sweeps and moves buffers at allocations          *)
(*   SpecStrAny : the same, with callers that may break the contract of    *)
(*              rb_mmtk_str_new_strbuf_copy_impl                           *)
(*   SpecProt : toggling the page protection of the code region            *)
(*   SpecRes  : reserving the address space of the code region             *)
(*   SpecWalk : walking the heap to call back on every code unit           *)
(*   SpecProf : exporting the exit-location samples                        *)
(***************************************************************************)
EXTENDS Integers, Sequences, FiniteSets, TLC

\* ------------------------------------------------------------------ bounds
NCtx == 2
NUnits == 1
NPtr == 2
NStr == 1
MaxCap == 2
HeapBytes == 3
NPages == 2
MaxSize == 3
ProbeStep == 3
MaxLow == 2
SlotsPerRange == 2
MaxSamples == 2
MaxFrames == 1

Ctx == 1..NCtx
Units == 1..NUnits
\* values of a jit_func slot: 0 is NULL, 1..NPtr are entry points
Ptrs == 0..NPtr
NoCtx == 0
NoUnit == 0

VARIABLES
    heap,             \* the strbuf held by every heap slot, or Free
    str,              \* as.heap.ptr, ext strbuf and aux.capa of every string
    spc,              \* position of the running string operation
    a,                \* arguments and locals of rb_mmtk_str_new_strbuf_copy_impl
    r,                \* arguments and locals of rb_mmtk_str_sized_realloc_n_impl
    e                 \* what the owner and the source were at call entry

VARIABLES
    ppc,              \* position of the running protection call
    prot,             \* protection of every page of the code region
    m                 \* arguments and locals of the protection call

VARIABLES
    wpc,              \* position of the running heap walk
    w,                \* arguments and locals of the walk and its callback
    objs,             \* type and poisoning of the object in every heap slot
    visits,           \* the code units the callback was invoked with
    insp              \* the slots the running walk has tested

VARIABLES
    dpc,              \* position of the running profiling export
    ed                \* arguments and locals of rb_yjit_exit_locations_dict

VARIABLES
    vpc,              \* position of the running address-space reservation
    v                 \* arguments and locals of rb_yjit_reserve_addr_space

VARIABLES
    pc,               \* position of every execution context
    lock_owner,       \* vm->ractor.sync.lock_owner (NoCtx: free)
    lock_rec,         \* vm->ractor.sync.lock_rec
    barrier_waiting,  \* vm->ractor.sync.barrier_waiting
    tok,              \* *recursive_lock_level of rb_yjit_vm_lock_then_barrier
    lev,              \* _lev of RB_VM_LOCK_ENTER in rb_yjit_compile_iseq
    ret,              \* where rb_yjit_compile_iseq returns to
    iseq,             \* the iseq argument of the running call
    code_ptr,         \* local code_ptr of rb_yjit_compile_iseq
    success,          \* local success of rb_yjit_compile_iseq
    jit_func,         \* iseq->body->jit_func of every code unit
    seen,             \* what the last read of an entry pointer returned
    pre_func,         \* jit_func of the unit when compile was called
    entry_rec,        \* recursion level held when compile was called
    state,            \* state of every code unit (section 4.4)
    cleared,          \* unit was reset and not compiled since
    ever_cleared      \* unit was reset at some time

jitvars == <<pc, lock_owner, lock_rec, barrier_waiting, tok, lev, ret, iseq,
             code_ptr, success, jit_func, seen, pre_func, entry_rec, state,
             cleared, ever_cleared>>

strvars == <<heap, str, spc, a, r, e>>

protvars == <<ppc, prot, m>>

resvars == <<vpc, v>>

walkvars == <<wpc, w, objs, visits, insp>>

profvars == <<dpc, ed>>

\* the variables of the remaining parts
xvars == <<resvars, walkvars, profvars>>

vars == <<jitvars, strvars, protvars, xvars>>

NoRead == [u |-> NoUnit, v |-> 0, cl |-> FALSE, ev |-> FALSE]

\* ----------------------------------------------------------- the VM lock
\* Recursion level a context holds
HeldLevel(c) == IF lock_owner = c THEN lock_rec ELSE 0

\* A context that sleeps: parked at a safe point, or contending for the lock
Blocked(c) ==
    \/ pc[c] = "parked"
    \/ pc[c] \in {"c_enter", "g_enter"} /\ lock_owner \notin {NoCtx, c}

\* A context that executes interpreted or compiled code
Running(c) == pc[c] \in {"run", "read"}

\* rb_vm_lock_enter: exclusive, reentrant for the owner, blocking otherwise
rb_vm_lock_enter(c) ==
    /\ lock_owner \in {NoCtx, c}
    /\ lock_owner' = c
    /\ lock_rec' = lock_rec + 1

\* rb_vm_lock_leave: one level down, the lock is free at level 0
rb_vm_lock_leave(c, l) ==
    /\ lock_owner = c
    /\ lock_rec = l
    /\ lock_rec' = lock_rec - 1
    /\ lock_owner' = IF lock_rec = 1 THEN NoCtx ELSE c

\* rb_vm_barrier, first half: ask every other context to stop
rb_vm_barrier_begin(c) ==
    /\ barrier_waiting' = TRUE

\* rb_vm_barrier, second half: returns once every other context sleeps
rb_vm_barrier_end(c) ==
    /\ barrier_waiting
    /\ \A d \in Ctx \ {c} : Blocked(d)
    /\ barrier_waiting' = FALSE

\* A running context reaches a safe point and sleeps on the VM lock
park(c) ==
    /\ pc[c] = "run"
    /\ barrier_waiting
    /\ lock_owner # c
    /\ pc' = [pc EXCEPT ![c] = "parked"]
    /\ UNCHANGED <<strvars, protvars, xvars,
                   lock_owner, lock_rec, barrier_waiting, tok, lev, ret, iseq,
                   code_ptr, success, jit_func, seen, pre_func, entry_rec,
                   state, cleared, ever_cleared>>

\* A parked context runs again once the lock is free
resume(c) ==
    /\ pc[c] = "parked"
    /\ lock_owner = NoCtx
    /\ pc' = [pc EXCEPT ![c] = "run"]
    /\ UNCHANGED <<strvars, protvars, xvars,
                   lock_owner, lock_rec, barrier_waiting, tok, lev, ret, iseq,
                   code_ptr, success, jit_func, seen, pre_func, entry_rec,
                   state, cleared, ever_cleared>>

\* ------------------------------------------- reading the entry pointer
\* The interpreter reads iseq->body->jit_func before it calls into it
read_jit_func(c, u) ==
    /\ pc[c] = "run"
    /\ pc' = [pc EXCEPT ![c] = "read"]
    /\ seen' = [seen EXCEPT ![c] = [u |-> u, v |-> jit_func[u],
                                    cl |-> cleared[u], ev |-> ever_cleared[u]]]
    /\ UNCHANGED <<strvars, protvars, xvars,
                   lock_owner, lock_rec, barrier_waiting, tok, lev, ret, iseq,
                   code_ptr, success, jit_func, pre_func, entry_rec, state,
                   cleared, ever_cleared>>

read_done(c) ==
    /\ pc[c] = "read"
    /\ pc' = [pc EXCEPT ![c] = "run"]
    /\ seen' = [seen EXCEPT ![c] = NoRead]
    /\ UNCHANGED <<strvars, protvars, xvars,
                   lock_owner, lock_rec, barrier_waiting, tok, lev, ret, iseq,
                   code_ptr, success, jit_func, pre_func, entry_rec, state,
                   cleared, ever_cleared>>

\* ------------------------------------------------- rb_yjit_compile_iseq
\* A caller (running code, or code inside the gate) calls compile on u
call_compile(c, u) ==
    /\ pc[c] \in {"run", "inside"}
    /\ pc' = [pc EXCEPT ![c] = "c_enter"]
    /\ ret' = [ret EXCEPT ![c] = pc[c]]
    /\ iseq' = [iseq EXCEPT ![c] = u]
    /\ success' = [success EXCEPT ![c] = TRUE]
    /\ pre_func' = [pre_func EXCEPT ![c] = jit_func[u]]
    /\ entry_rec' = [entry_rec EXCEPT ![c] = HeldLevel(c)]
    /\ state' = [state EXCEPT ![u] = "Compiling"]
    /\ UNCHANGED <<strvars, protvars, xvars,
                   lock_owner, lock_rec, barrier_waiting, tok, lev, code_ptr,
                   jit_func, seen, cleared, ever_cleared>>

\* Variant: the lock is not taken before the barrier
compile_lock_enter_nolock(c) ==
    /\ pc[c] = "c_enter"
    /\ pc' = [pc EXCEPT ![c] = "c_barrier"]
    /\ UNCHANGED <<strvars, protvars, xvars,
                   lock_owner, lock_rec, barrier_waiting, tok, lev, ret, iseq,
                   code_ptr, success, jit_func, seen, pre_func, entry_rec,
                   state, cleared, ever_cleared>>

\* RB_VM_LOCK_ENTER()
compile_lock_enter(c) ==
    /\ pc[c] = "c_enter"
    /\ rb_vm_lock_enter(c)
    /\ lev' = [lev EXCEPT ![c] = lock_rec']
    /\ pc' = [pc EXCEPT ![c] = "c_barrier"]
    /\ UNCHANGED <<strvars, protvars, xvars, barrier_waiting, tok, ret, iseq, code_ptr, success,
                   jit_func, seen, pre_func, entry_rec, state, cleared,
                   ever_cleared>>

\* rb_vm_barrier()
compile_barrier(c) ==
    /\ pc[c] = "c_barrier"
    /\ rb_vm_barrier_begin(c)
    /\ pc' = [pc EXCEPT ![c] = "c_bwait"]
    /\ UNCHANGED <<strvars, protvars, xvars, lock_owner, lock_rec, tok, lev, ret, iseq, code_ptr,
                   success, jit_func, seen, pre_func, entry_rec, state,
                   cleared, ever_cleared>>

compile_barrier_done(c) ==
    /\ pc[c] = "c_bwait"
    /\ rb_vm_barrier_end(c)
    /\ pc' = [pc EXCEPT ![c] = "c_gen"]
    /\ UNCHANGED <<strvars, protvars, xvars, lock_owner, lock_rec, tok, lev, ret, iseq, code_ptr,
                   success, jit_func, seen, pre_func, entry_rec, state,
                   cleared, ever_cleared>>

\* code_ptr = rb_yjit_iseq_gen_entry_point(iseq, ec): NULL or an entry point
compile_gen(c) ==
    /\ pc[c] = "c_gen"
    /\ \E p \in Ptrs : code_ptr' = [code_ptr EXCEPT ![c] = p]
    /\ pc' = [pc EXCEPT ![c] = "c_write"]
    /\ UNCHANGED <<strvars, protvars, xvars,
                   lock_owner, lock_rec, barrier_waiting, tok, lev, ret, iseq,
                   success, jit_func, seen, pre_func, entry_rec, state,
                   cleared, ever_cleared>>

\* Variant: the failure path leaves the entry pointer as it was
compile_install_keep(c) ==
    /\ pc[c] = "c_write"
    /\ IF code_ptr[c] # 0
       THEN /\ jit_func' = [jit_func EXCEPT ![iseq[c]] = code_ptr[c]]
            /\ success' = success
            /\ state' = [state EXCEPT ![iseq[c]] = "Compiled"]
            /\ cleared' = [cleared EXCEPT ![iseq[c]] = FALSE]
       ELSE /\ jit_func' = jit_func
            /\ success' = [success EXCEPT ![c] = FALSE]
            /\ state' = [state EXCEPT ![iseq[c]] = "Failed"]
            /\ cleared' = cleared
    /\ pc' = [pc EXCEPT ![c] = "c_leave"]
    /\ UNCHANGED <<strvars, protvars, xvars,
                   lock_owner, lock_rec, barrier_waiting, tok, lev, ret, iseq,
                   code_ptr, seen, pre_func, entry_rec, ever_cleared>>

\* if (code_ptr) jit_func = code_ptr; else { jit_func = 0; success = false; }
compile_install(c) ==
    /\ pc[c] = "c_write"
    /\ IF code_ptr[c] # 0
       THEN /\ jit_func' = [jit_func EXCEPT ![iseq[c]] = code_ptr[c]]
            /\ success' = success
            /\ state' = [state EXCEPT ![iseq[c]] = "Compiled"]
            /\ cleared' = [cleared EXCEPT ![iseq[c]] = FALSE]
       ELSE /\ jit_func' = [jit_func EXCEPT ![iseq[c]] = 0]
            /\ success' = [success EXCEPT ![c] = FALSE]
            /\ state' = [state EXCEPT ![iseq[c]] = "Failed"]
            /\ cleared' = cleared
    /\ pc' = [pc EXCEPT ![c] = "c_leave"]
    /\ UNCHANGED <<strvars, protvars, xvars,
                   lock_owner, lock_rec, barrier_waiting, tok, lev, ret, iseq,
                   code_ptr, seen, pre_func, entry_rec, ever_cleared>>

\* Variant: the failure path returns without releasing the lock
compile_lock_leave_onsuccess(c) ==
    /\ pc[c] = "c_leave"
    /\ IF success[c]
       THEN /\ rb_vm_lock_leave(c, lev[c])
            /\ lev' = [lev EXCEPT ![c] = 0]
       ELSE UNCHANGED <<lock_owner, lock_rec, lev>>
    /\ pc' = [pc EXCEPT ![c] = "c_ret"]
    /\ UNCHANGED <<strvars, protvars, xvars, barrier_waiting, tok, ret, iseq, code_ptr, success,
                   jit_func, seen, pre_func, entry_rec, state, cleared,
                   ever_cleared>>

\* RB_VM_LOCK_LEAVE()
compile_lock_leave(c) ==
    /\ pc[c] = "c_leave"
    /\ rb_vm_lock_leave(c, lev[c])
    /\ lev' = [lev EXCEPT ![c] = 0]
    /\ pc' = [pc EXCEPT ![c] = "c_ret"]
    /\ UNCHANGED <<strvars, protvars, xvars, barrier_waiting, tok, ret, iseq, code_ptr, success,
                   jit_func, seen, pre_func, entry_rec, state, cleared,
                   ever_cleared>>

\* return success
compile_return(c) ==
    /\ pc[c] = "c_ret"
    /\ pc' = [pc EXCEPT ![c] = ret[c]]
    /\ ret' = [ret EXCEPT ![c] = "run"]
    /\ iseq' = [iseq EXCEPT ![c] = NoUnit]
    /\ code_ptr' = [code_ptr EXCEPT ![c] = 0]
    /\ success' = [success EXCEPT ![c] = TRUE]
    /\ pre_func' = [pre_func EXCEPT ![c] = 0]
    /\ entry_rec' = [entry_rec EXCEPT ![c] = 0]
    /\ UNCHANGED <<strvars, protvars, xvars,
                   lock_owner, lock_rec, barrier_waiting, tok, lev, jit_func,
                   seen, state, cleared, ever_cleared>>

\* ------------------- rb_yjit_vm_lock_then_barrier / rb_yjit_vm_unlock
call_lock_then_barrier(c) ==
    /\ pc[c] = "run"
    /\ pc' = [pc EXCEPT ![c] = "g_enter"]
    /\ UNCHANGED <<strvars, protvars, xvars,
                   lock_owner, lock_rec, barrier_waiting, tok, lev, ret, iseq,
                   code_ptr, success, jit_func, seen, pre_func, entry_rec,
                   state, cleared, ever_cleared>>

\* Variant: the barrier is entered without taking the lock
lock_then_barrier_enter_nolock(c) ==
    /\ pc[c] = "g_enter"
    /\ pc' = [pc EXCEPT ![c] = "g_barrier"]
    /\ UNCHANGED <<strvars, protvars, xvars,
                   lock_owner, lock_rec, barrier_waiting, tok, lev, ret, iseq,
                   code_ptr, success, jit_func, seen, pre_func, entry_rec,
                   state, cleared, ever_cleared>>

\* Variant: the lock is taken but the barrier is skipped
lock_then_barrier_enter_nobarrier(c) ==
    /\ pc[c] = "g_enter"
    /\ rb_vm_lock_enter(c)
    /\ tok' = [tok EXCEPT ![c] = lock_rec']
    /\ pc' = [pc EXCEPT ![c] = "inside"]
    /\ UNCHANGED <<strvars, protvars, xvars, barrier_waiting, lev, ret, iseq, code_ptr, success,
                   jit_func, seen, pre_func, entry_rec, state, cleared,
                   ever_cleared>>

\* rb_vm_lock_enter(recursive_lock_level, file, line)
lock_then_barrier_enter(c) ==
    /\ pc[c] = "g_enter"
    /\ rb_vm_lock_enter(c)
    /\ tok' = [tok EXCEPT ![c] = lock_rec']
    /\ pc' = [pc EXCEPT ![c] = "g_barrier"]
    /\ UNCHANGED <<strvars, protvars, xvars, barrier_waiting, lev, ret, iseq, code_ptr, success,
                   jit_func, seen, pre_func, entry_rec, state, cleared,
                   ever_cleared>>

\* rb_vm_barrier()
lock_then_barrier_barrier(c) ==
    /\ pc[c] = "g_barrier"
    /\ rb_vm_barrier_begin(c)
    /\ pc' = [pc EXCEPT ![c] = "g_bwait"]
    /\ UNCHANGED <<strvars, protvars, xvars, lock_owner, lock_rec, tok, lev, ret, iseq, code_ptr,
                   success, jit_func, seen, pre_func, entry_rec, state,
                   cleared, ever_cleared>>

lock_then_barrier_done(c) ==
    /\ pc[c] = "g_bwait"
    /\ rb_vm_barrier_end(c)
    /\ pc' = [pc EXCEPT ![c] = "inside"]
    /\ UNCHANGED <<strvars, protvars, xvars, lock_owner, lock_rec, tok, lev, ret, iseq, code_ptr,
                   success, jit_func, seen, pre_func, entry_rec, state,
                   cleared, ever_cleared>>

\* rb_yjit_vm_unlock: rb_vm_lock_leave(recursive_lock_level, file, line)
rb_yjit_vm_unlock(c) ==
    /\ pc[c] = "inside"
    /\ rb_vm_lock_leave(c, tok[c])
    /\ tok' = [tok EXCEPT ![c] = 0]
    /\ pc' = [pc EXCEPT ![c] = "run"]
    /\ UNCHANGED <<strvars, protvars, xvars, barrier_waiting, lev, ret, iseq, code_ptr, success,
                   jit_func, seen, pre_func, entry_rec, state, cleared,
                   ever_cleared>>

\* ------------------------------------------------ rb_iseq_reset_jit_func
\* The invalidation code, inside the gate, calls the reset on a code unit
call_reset(c, u) ==
    /\ pc[c] = "inside"
    /\ pc' = [pc EXCEPT ![c] = "reset"]
    /\ iseq' = [iseq EXCEPT ![c] = u]
    /\ UNCHANGED <<strvars, protvars, xvars, lock_owner, lock_rec, barrier_waiting, tok, lev, ret,
                   code_ptr, success, jit_func, seen, pre_func, entry_rec,
                   state, cleared, ever_cleared>>

\* Variant: the reset leaves the entry pointer as it was
rb_iseq_reset_jit_func_keep(c) ==
    /\ pc[c] = "reset"
    /\ state' = [state EXCEPT ![iseq[c]] = "Invalidated"]
    /\ cleared' = [cleared EXCEPT ![iseq[c]] = TRUE]
    /\ ever_cleared' = [ever_cleared EXCEPT ![iseq[c]] = TRUE]
    /\ iseq' = [iseq EXCEPT ![c] = NoUnit]
    /\ pc' = [pc EXCEPT ![c] = "inside"]
    /\ UNCHANGED <<strvars, protvars, xvars, lock_owner, lock_rec, barrier_waiting, tok, lev, ret,
                   code_ptr, success, jit_func, seen, pre_func, entry_rec>>

\* iseq->body->jit_func = NULL
rb_iseq_reset_jit_func(c) ==
    /\ pc[c] = "reset"
    /\ jit_func' = [jit_func EXCEPT ![iseq[c]] = 0]
    /\ state' = [state EXCEPT ![iseq[c]] = "Invalidated"]
    /\ cleared' = [cleared EXCEPT ![iseq[c]] = TRUE]
    /\ ever_cleared' = [ever_cleared EXCEPT ![iseq[c]] = TRUE]
    /\ iseq' = [iseq EXCEPT ![c] = NoUnit]
    /\ pc' = [pc EXCEPT ![c] = "inside"]
    /\ UNCHANGED <<strvars, protvars, xvars, lock_owner, lock_rec, barrier_waiting, tok, lev, ret,
                   code_ptr, success, seen, pre_func, entry_rec>>

\* ------------------------------------- callers that follow section 4.4
\* Uninstrumented -> Compiling and Invalidated -> Compiling
call_compile_sm(c, u) ==
    /\ state[u] \in {"Uninstrumented", "Invalidated"}
    /\ call_compile(c, u)

\* Compiled -> Invalidated
call_reset_sm(c, u) ==
    /\ state[u] = "Compiled"
    /\ call_reset(c, u)

\* ------------------------------------------------- the managed heap
Strs == 1..NStr
\* one slot more than the strings need: a new buffer exists beside the old
NSlots == NStr + 1
Slots == 1..NSlots
\* two byte values are enough to tell a copied byte from any other
Bytes == {0, 1}
NULL == 0

\* rb_mmtk_strbuf_t: the descriptor header comes right before the content
HdrSize == 1
Stride == HdrSize + MaxCap
\* A slot that holds no buffer a string can reach: free memory, or a
\* replaced buffer that waits for its reclamation; its bytes are unspecified
Free == [capa |-> 0 - 1, ary |-> <<>>]

RECURSIVE SeqsOf(_)
SeqsOf(n) ==
    IF n = 0 THEN {<<>>}
    ELSE {Append(q, b) : q \in SeqsOf(n - 1), b \in Bytes}

BaseOf(k) == k * Stride
SlotOf(p) == p \div Stride
IdxOf(p) == (p % Stride) - HdrSize

\* char *chars = rb_mmtk_strbuf_to_chars(strbuf)
rb_mmtk_strbuf_to_chars(strbuf) == strbuf + HdrSize

\* What reading n bytes at p can give: the bytes of a live buffer, or
\* anything when p dangles or the range leaves the buffer
Reads(h, p, n) ==
    IF n = 0 THEN {<<>>}
    ELSE LET k == SlotOf(p)
             i == IdxOf(p)
         IN  IF k \in Slots /\ h[k] # Free /\ i >= 0 /\ i + n <= h[k].capa
             THEN {SubSeq(h[k].ary, i + 1, i + n)}
             ELSE SeqsOf(n)

\* memcpy(chars, src, copy_size) with the bytes `data` read at src
Memcpy(h, chars, data) ==
    LET k == SlotOf(chars)
        n == Len(data)
    IN  [h EXCEPT ![k].ary = data \o SubSeq(h[k].ary, n + 1, h[k].capa)]

\* Slots of the buffers the strings hold
Reachable(st) == {SlotOf(st[s].strbuf) : s \in {t \in Strs : st[t].strbuf # NULL}}

\* Slots of the objects RB_GC_GUARD keeps alive and in place
Pinned(src_obj) == IF src_obj = NULL THEN {} ELSE {SlotOf(src_obj)}

Collect(h, keep) == [k \in Slots |-> IF k \in keep THEN h[k] ELSE Free]

\* A collection triggered by an allocation: none; or the unreachable
\* buffers are reclaimed; or, besides, one unpinned buffer is moved and
\* the string that holds it is updated
GCOutcomes(src_obj) ==
    LET swept == Collect(heap, Reachable(str) \cup Pinned(src_obj))
        movable == {s \in Strs : /\ str[s].strbuf # NULL
                                 /\ SlotOf(str[s].strbuf) \notin Pinned(src_obj)}
    IN  {<<heap, str>>, <<swept, str>>} \cup
        {<<[swept EXCEPT ![k] = swept[SlotOf(str[s].strbuf)],
                         ![SlotOf(str[s].strbuf)] = Free],
           [str EXCEPT ![s].strbuf = BaseOf(k),
                       ![s].ptr = rb_mmtk_strbuf_to_chars(BaseOf(k))]>> :
            s \in movable, k \in {j \in Slots : swept[j] = Free}}

\* Content bytes of the buffers in the heap; the heap has room for
\* HeapBytes of them
RECURSIVE UsedUpTo(_, _)
UsedUpTo(h, k) ==
    IF k = 0 THEN 0
    ELSE UsedUpTo(h, k - 1) + (IF h[k] = Free THEN 0 ELSE h[k].capa)

HasRoom(capa) == UsedUpTo(heap, NSlots) + capa <= HeapBytes

NoCall == [str |-> 0, capa |-> 0, src_obj |-> NULL, src |-> NULL,
           copy_size |-> 0, strbuf |-> NULL, chars |-> NULL, caller |-> "none"]
NoRealloc == [str |-> 0, new_size |-> 0, old_size |-> 0]
NoEntry == [ptr |-> NULL, strbuf |-> NULL, capa |-> 0, bytes |-> <<>>,
            old_ary |-> <<>>, copied |-> 0 - 1]

\* The owner and the bytes at src when the call is entered
Entry(s, src, n) ==
    [ptr |-> str[s].ptr, strbuf |-> str[s].strbuf, capa |-> str[s].capa,
     bytes |-> CHOOSE d \in Reads(heap, src, n) : TRUE,
     old_ary |-> IF str[s].strbuf = NULL THEN <<>>
                 ELSE heap[SlotOf(str[s].strbuf)].ary,
     copied |-> 0 - 1]

\* ------------------------------------- rb_mmtk_str_new_strbuf_copy_impl
\* rb_mmtk_str_new_strbuf_impl(str, len, termlen): an empty buffer
rb_mmtk_str_new_strbuf_impl(s, len, termlen) ==
    /\ spc = "idle"
    /\ len + termlen <= MaxCap
    /\ HasRoom(len + termlen)
    /\ a' = [NoCall EXCEPT !.str = s, !.capa = len + termlen,
                           !.caller = "new"]
    /\ e' = Entry(s, NULL, 0)
    /\ spc' = "a_alloc"
    /\ UNCHANGED <<jitvars, protvars, xvars, heap, str, r>>

\* A caller attaches a buffer to s with n bytes copied from offset off of
\* the buffer of t; n <= capa and the source range lies in the buffer
call_new_strbuf_copy(s, t, capa, off, n) ==
    /\ spc = "idle"
    /\ HasRoom(capa)
    /\ str[t].strbuf # NULL
    /\ n <= capa
    /\ off + n <= heap[SlotOf(str[t].strbuf)].capa
    /\ a' = [NoCall EXCEPT !.str = s, !.capa = capa,
                           !.src_obj = str[t].strbuf,
                           !.src = str[t].ptr + off,
                           !.copy_size = n, !.caller = "copy"]
    /\ e' = Entry(s, str[t].ptr + off, n)
    /\ spc' = "a_alloc"
    /\ UNCHANGED <<jitvars, protvars, xvars, heap, str, r>>

\* A caller that breaks the contract: n > capa
call_new_strbuf_copy_over(s, t, capa, off, n) ==
    /\ spc = "idle"
    /\ HasRoom(capa)
    /\ str[t].strbuf # NULL
    /\ n > capa
    /\ off + n <= heap[SlotOf(str[t].strbuf)].capa
    /\ a' = [NoCall EXCEPT !.str = s, !.capa = capa,
                           !.src_obj = str[t].strbuf,
                           !.src = str[t].ptr + off,
                           !.copy_size = n, !.caller = "copy"]
    /\ e' = Entry(s, str[t].ptr + off, n)
    /\ spc' = "a_alloc"
    /\ UNCHANGED <<jitvars, protvars, xvars, heap, str, r>>

\* Variant: src_obj is not kept alive and in place during the allocation
attach_alloc_unguarded ==
    /\ spc = "a_alloc"
    /\ \E out \in GCOutcomes(NULL) :
       \E k \in {j \in Slots : out[1][j] = Free} :
       \E init \in SeqsOf(a.capa) :
          /\ heap' = [out[1] EXCEPT ![k] = [capa |-> a.capa, ary |-> init]]
          /\ str' = out[2]
          /\ a' = [a EXCEPT !.strbuf = BaseOf(k),
                            !.chars = rb_mmtk_strbuf_to_chars(BaseOf(k))]
    /\ spc' = "a_copy"
    /\ UNCHANGED <<jitvars, protvars, xvars, r, e>>

\* Variant: the owner's content pointer is set as soon as the buffer exists
attach_alloc_early ==
    /\ spc = "a_alloc"
    /\ \E out \in GCOutcomes(a.src_obj) :
       \E k \in {j \in Slots : out[1][j] = Free} :
       \E init \in SeqsOf(a.capa) :
          /\ heap' = [out[1] EXCEPT ![k] = [capa |-> a.capa, ary |-> init]]
          /\ str' = [out[2] EXCEPT
                        ![a.str].ptr = rb_mmtk_strbuf_to_chars(BaseOf(k))]
          /\ a' = [a EXCEPT !.strbuf = BaseOf(k),
                            !.chars = rb_mmtk_strbuf_to_chars(BaseOf(k))]
    /\ spc' = "a_copy"
    /\ UNCHANGED <<jitvars, protvars, xvars, r, e>>

\* strbuf = rb_mmtk_new_strbuf(capa), which may trigger GC;
\* chars = rb_mmtk_strbuf_to_chars(strbuf)
attach_alloc ==
    /\ spc = "a_alloc"
    /\ \E out \in GCOutcomes(a.src_obj) :
       \E k \in {j \in Slots : out[1][j] = Free} :
       \E init \in SeqsOf(a.capa) :
          /\ heap' = [out[1] EXCEPT ![k] = [capa |-> a.capa, ary |-> init]]
          /\ str' = out[2]
          /\ a' = [a EXCEPT !.strbuf = BaseOf(k),
                            !.chars = rb_mmtk_strbuf_to_chars(BaseOf(k))]
    /\ spc' = "a_copy"
    /\ UNCHANGED <<jitvars, protvars, xvars, r, e>>

\* if (src != NULL) { RUBY_ASSERT(capa >= copy_size);
\*                     memcpy(chars, src, copy_size); }
\* RUBY_ASSERT stops the process in a build with RUBY_DEBUG and is nothing
\* in a build without; memcpy of more than capa bytes writes past the
\* buffer
attach_copy ==
    /\ spc = "a_copy"
    /\ IF a.src # NULL
       THEN \E ruby_debug \in BOOLEAN :
              IF ruby_debug /\ ~(a.capa >= a.copy_size)
              THEN /\ spc' = "assert_fail"
                   /\ heap' = heap
                   /\ e' = e
              ELSE /\ \E data \in Reads(heap, a.src, a.copy_size) :
                         heap' = Memcpy(heap, a.chars, data)
                   /\ e' = [e EXCEPT !.copied = a.copy_size]
                   /\ spc' = "a_setptr"
       ELSE /\ heap' = heap
            /\ e' = [e EXCEPT !.copied = 0]
            /\ spc' = "a_setptr"
    /\ UNCHANGED <<jitvars, protvars, xvars, str, a, r>>

\* Variant: the owner's content pointer is left as it was
attach_setptr_stale ==
    /\ spc = "a_setptr"
    /\ spc' = "a_setbuf"
    /\ UNCHANGED <<jitvars, protvars, xvars, heap, str, a, r, e>>

\* RSTRING(str)->as.heap.ptr = chars
attach_setptr ==
    /\ spc = "a_setptr"
    /\ str' = [str EXCEPT ![a.str].ptr = a.chars]
    /\ spc' = "a_setbuf"
    /\ UNCHANGED <<jitvars, protvars, xvars, heap, a, r, e>>

\* rb_mmtk_str_set_strbuf(str, (VALUE)strbuf); the prior buffer of the
\* owner becomes unreachable garbage
attach_setbuf ==
    /\ spc = "a_setbuf"
    /\ str' = [str EXCEPT ![a.str].strbuf = a.strbuf]
    /\ heap' = Collect(heap, Reachable(str'))
    /\ spc' = "a_ret"
    /\ UNCHANGED <<jitvars, protvars, xvars, a, r, e>>

\* RB_GC_GUARD(src_obj); the call returns to its caller
attach_return ==
    /\ spc = "a_ret"
    /\ a' = NoCall
    /\ IF a.caller = "realloc"
       THEN spc' = "r_capa" /\ e' = e
       ELSE spc' = "idle" /\ e' = NoEntry
    /\ UNCHANGED <<jitvars, protvars, xvars, heap, str, r>>

\* ------------------------------------- rb_mmtk_str_sized_realloc_n_impl
\* Variant: the new size is copied whatever the old size is
copy_size_new(old_size, new_size) == new_size

\* size_t copy_size = old_size < new_size ? old_size : new_size
copy_size(old_size, new_size) ==
    IF old_size < new_size THEN old_size ELSE new_size

\* The call, up to its call of rb_mmtk_str_new_strbuf_copy_impl; the
\* string is a heap string and old_size is at most the size of its buffer
rb_mmtk_str_sized_realloc_n_impl(s, new_size, old_size) ==
    /\ spc = "idle"
    /\ HasRoom(new_size)
    /\ str[s].strbuf # NULL
    /\ old_size <= heap[SlotOf(str[s].strbuf)].capa
    /\ r' = [str |-> s, new_size |-> new_size, old_size |-> old_size]
    /\ a' = [NoCall EXCEPT !.str = s, !.capa = new_size,
                           !.src_obj = str[s].strbuf,
                           !.src = str[s].ptr,
                           !.copy_size = copy_size(old_size, new_size),
                           !.caller = "realloc"]
    /\ e' = Entry(s, str[s].ptr, copy_size(old_size, new_size))
    /\ spc' = "a_alloc"
    /\ UNCHANGED <<jitvars, protvars, xvars, heap, str>>

\* RSTRING(str)->as.heap.aux.capa = new_size
realloc_set_capa ==
    /\ spc = "r_capa"
    /\ str' = [str EXCEPT ![r.str].capa = r.new_size]
    /\ spc' = "r_ret"
    /\ UNCHANGED <<jitvars, protvars, xvars, heap, a, r, e>>

realloc_return ==
    /\ spc = "r_ret"
    /\ r' = NoRealloc
    /\ e' = NoEntry
    /\ spc' = "idle"
    /\ UNCHANGED <<jitvars, protvars, xvars, heap, str, a>>

\* ------------------------------------------------- page protection
Pages == 0..(NPages - 1)
\* bytes of a page of the modelled code region
PageSize == 2
\* page-aligned addresses of the region
Blocks == {g * PageSize : g \in Pages}

NoProt == [op |-> "none", mem_block |-> 0, mem_size |-> 0, os_fails |-> FALSE,
           os_called |-> FALSE, result |-> TRUE, entry |-> <<>>]

\* Pages that mprotect(mem_block, mem_size, ...) changes
PagesOf(mem_block, mem_size) ==
    {g \in Pages : /\ g * PageSize < mem_block + mem_size
                   /\ mem_block < (g + 1) * PageSize}

\* mprotect: fails and changes nothing, or sets the protection of the pages
mprotect(mem_block, mem_size, p, fails) ==
    IF fails THEN prot
    ELSE [g \in Pages |->
            IF g \in PagesOf(mem_block, mem_size) THEN p ELSE prot[g]]

\* A call of rb_yjit_mark_executable; the OS may be about to refuse
call_mark_executable(mem_block, mem_size, fails) ==
    /\ ppc = "idle"
    /\ mem_block + mem_size <= NPages * PageSize
    /\ m' = [NoProt EXCEPT !.op = "exec", !.mem_block = mem_block,
                           !.mem_size = mem_size, !.os_fails = fails,
                           !.entry = prot]
    /\ ppc' = "x_test"
    /\ UNCHANGED <<jitvars, strvars, xvars, prot>>

\* Variant: no test for a zero size
mark_executable_test_nozero ==
    /\ ppc = "x_test"
    /\ ppc' = "x_mprotect"
    /\ UNCHANGED <<jitvars, strvars, xvars, prot, m>>

\* if (mem_size == 0) return;
mark_executable_test ==
    /\ ppc = "x_test"
    /\ ppc' = IF m.mem_size = 0 THEN "x_ret" ELSE "x_mprotect"
    /\ UNCHANGED <<jitvars, strvars, xvars, prot, m>>

\* if (mprotect(mem_block, mem_size, PROT_READ | PROT_EXEC)) rb_bug(...)
mark_executable_mprotect ==
    /\ ppc = "x_mprotect"
    /\ prot' = mprotect(m.mem_block, m.mem_size, "rx", m.os_fails)
    /\ m' = [m EXCEPT !.os_called = TRUE]
    /\ ppc' = IF m.os_fails THEN "abort" ELSE "x_ret"
    /\ UNCHANGED <<jitvars, strvars, xvars>>

mark_executable_return ==
    /\ ppc = "x_ret"
    /\ m' = NoProt
    /\ ppc' = "idle"
    /\ UNCHANGED <<jitvars, strvars, xvars, prot>>

\* A call of rb_yjit_mark_writable; the OS may be about to refuse
call_mark_writable(mem_block, mem_size, fails) ==
    /\ ppc = "idle"
    /\ mem_block + mem_size <= NPages * PageSize
    /\ m' = [NoProt EXCEPT !.op = "write", !.mem_block = mem_block,
                           !.mem_size = mem_size, !.os_fails = fails,
                           !.entry = prot]
    /\ ppc' = "w_mprotect"
    /\ UNCHANGED <<jitvars, strvars, xvars, prot>>

\* Variant: the result of the OS call is dropped
mark_writable_mprotect_true ==
    /\ ppc = "w_mprotect"
    /\ prot' = mprotect(m.mem_block, m.mem_size, "rw", m.os_fails)
    /\ m' = [m EXCEPT !.os_called = TRUE, !.result = TRUE]
    /\ ppc' = "w_ret"
    /\ UNCHANGED <<jitvars, strvars, xvars>>

\* if (mprotect(mem_block, mem_size, PROT_READ | PROT_WRITE)) return false;
\* return true;
mark_writable_mprotect ==
    /\ ppc = "w_mprotect"
    /\ prot' = mprotect(m.mem_block, m.mem_size, "rw", m.os_fails)
    /\ m' = [m EXCEPT !.os_called = TRUE, !.result = ~m.os_fails]
    /\ ppc' = "w_ret"
    /\ UNCHANGED <<jitvars, strvars, xvars>>

mark_writable_return ==
    /\ ppc = "w_ret"
    /\ m' = NoProt
    /\ ppc' = "idle"
    /\ UNCHANGED <<jitvars, strvars, xvars, prot>>

\* ---------------------------------------------- address-space reservation
\* Addresses are scaled: uint32_t holds 0 .. UINT32_RANGE - 1, INT32_MAX is
\* the largest value of the signed type of that width and the 4 MiB probe
\* step is ProbeStep.
UINT32_RANGE == 16
INT32_MAX == (UINT32_RANGE \div 2) - 1
MAP_FAILED == -1

\* where the code of the runtime can be: in and above the uint32_t range
CodeAddrs == {h * UINT32_RANGE + l : h \in 0..1, l \in 1..MaxLow}
\* sysconf(_SC_PAGESIZE)
PageSizes == {1, 2, 4}

NoReserve == [mem_size |-> 0, page_size |-> 1, cfunc_sample_addr |-> 0,
              probe_region_end |-> 0, req_addr |-> 0, mem_block |-> MAP_FAILED,
              log |-> <<>>]

\* align_ptr: the pointer padded up to a multiple of bytes; the remainder
\* is computed on the pointer truncated to uint32_t
align_ptr(ptr, multiple) ==
    LET rem == (ptr % UINT32_RANGE) % multiple
        pad == multiple - rem
    IN  IF rem = 0 THEN ptr ELSE ptr + pad

\* an address far from the code of the runtime
Elsewhere == 3 * UINT32_RANGE

\* What mmap can answer: failure, the hinted address, or another address
\* (a kernel that takes the address as a hint only)
MmapResults(addr) ==
    {MAP_FAILED}
        \cup (IF addr = NULL THEN {} ELSE {addr})
        \cup {Elsewhere}

\* A call of rb_yjit_reserve_addr_space up to the probe loop
call_reserve_addr_space(mem_size, cfunc, page_size) ==
    /\ vpc = "idle"
    /\ v' = [NoReserve EXCEPT
               !.mem_size = mem_size,
               !.page_size = page_size,
               !.cfunc_sample_addr = cfunc,
               !.probe_region_end = cfunc + INT32_MAX,
               !.req_addr = align_ptr(cfunc, page_size)]
    /\ vpc' = "v_mmap"
    /\ UNCHANGED <<jitvars, strvars, protvars, walkvars, profvars>>

\* mem_block = mmap(req_addr, mem_size, PROT_NONE, ... MAP_FIXED_NOREPLACE ...)
reserve_probe_mmap(res) ==
    /\ vpc = "v_mmap"
    /\ res \in MmapResults(v.req_addr)
    /\ v' = [v EXCEPT !.mem_block = res,
                      !.log = Append(@, [addr |-> v.req_addr, fixed |-> TRUE,
                                         res |-> res])]
    /\ vpc' = "v_test"
    /\ UNCHANGED <<jitvars, strvars, protvars, walkvars, profvars>>

\* Variant: the loop goes on after a successful reservation
reserve_probe_test_nobreak ==
    /\ vpc = "v_test"
    /\ v' = [v EXCEPT !.req_addr = @ + ProbeStep]
    /\ vpc' = IF v.req_addr + ProbeStep < v.probe_region_end
              THEN "v_mmap" ELSE "v_fallback"
    /\ UNCHANGED <<jitvars, strvars, protvars, walkvars, profvars>>

\* if (mem_block != MAP_FAILED) break;
\* req_addr += 4 * 1024 * 1024;  } while (req_addr < probe_region_end);
reserve_probe_test ==
    /\ vpc = "v_test"
    /\ IF v.mem_block # MAP_FAILED
       THEN /\ vpc' = "v_fallback"
            /\ v' = v
       ELSE /\ v' = [v EXCEPT !.req_addr = @ + ProbeStep]
            /\ vpc' = IF v.req_addr + ProbeStep < v.probe_region_end
                      THEN "v_mmap" ELSE "v_fallback"
    /\ UNCHANGED <<jitvars, strvars, protvars, walkvars, profvars>>

\* if (mem_block == MAP_FAILED) mem_block = mmap(NULL, mem_size, ...)
reserve_fallback(res) ==
    /\ vpc = "v_fallback"
    /\ res \in MmapResults(NULL)
    /\ IF v.mem_block = MAP_FAILED
       THEN v' = [v EXCEPT !.mem_block = res,
                           !.log = Append(@, [addr |-> NULL, fixed |-> FALSE,
                                              res |-> res])]
       ELSE /\ res = MAP_FAILED
            /\ v' = v
    /\ vpc' = "v_check"
    /\ UNCHANGED <<jitvars, strvars, protvars, walkvars, profvars>>

\* if (mem_block == MAP_FAILED) { perror(...); rb_bug("mmap failed"); }
reserve_check ==
    /\ vpc = "v_check"
    /\ vpc' = IF v.mem_block = MAP_FAILED THEN "abort" ELSE "v_ret"
    /\ UNCHANGED <<jitvars, strvars, protvars, walkvars, profvars, v>>

\* return mem_block;
reserve_return ==
    /\ vpc = "v_ret"
    /\ v' = NoReserve
    /\ vpc' = "idle"
    /\ UNCHANGED <<jitvars, strvars, protvars, walkvars, profvars>>

\* ------------------------------------------------------------- heap walk
\* The heap is two ranges of SlotsPerRange slots; range g has stride g and
\* its own span of addresses.
Ranges == {1, 2}
Span == Cardinality(Ranges) * SlotsPerRange + 1
vstart(g) == (g - 1) * Span
stride(g) == g
vend(g) == vstart(g) + SlotsPerRange * stride(g)
SlotsOf(g) == {vstart(g) + k * stride(g) : k \in 0..(SlotsPerRange - 1)}
SlotAddrs == UNION {SlotsOf(g) : g \in Ranges}
\* what a slot can hold: nothing, a code unit, or another object
ObjTypes == {"none", "iseq", "other"}

NoWalk == [page |-> 0, v |-> 0, vend |-> 0, stride |-> 0, ptr |-> FALSE,
           result |-> 0, entry |-> <<>>]

\* asan_poisoned_object_p: not NULL exactly for a poisoned object
asan_poisoned_object_p(o, x) == o[x].poisoned
asan_unpoison_object(o, x) == [o EXCEPT ![x].poisoned = FALSE]
\* asan_poison_object_if: poisons the object if ptr is not NULL
asan_poison_object_if(o, ptr, x) ==
    IF ptr THEN [o EXCEPT ![x].poisoned = TRUE] ELSE o
rb_obj_is_iseq(o, x) == o[x].type = "iseq"

\* Between walks objects are allocated and freed, poisoned and unpoisoned
mutate(x, type, poisoned) ==
    /\ wpc = "idle"
    /\ objs[x] # [type |-> type, poisoned |-> poisoned]
    /\ objs' = [objs EXCEPT ![x] = [type |-> type, poisoned |-> poisoned]]
    /\ UNCHANGED <<jitvars, strvars, protvars, resvars, profvars, wpc, w, visits, insp>>

\* rb_yjit_for_each_iseq: rb_objspace_each_objects(for_each_iseq_i, callback)
call_for_each_iseq ==
    /\ wpc = "idle"
    /\ w' = [NoWalk EXCEPT !.page = 1,
                           !.entry = [x \in SlotAddrs |-> objs[x].poisoned]]
    /\ visits' = <<>>
    /\ insp' = <<>>
    /\ wpc' = "e_next"
    /\ UNCHANGED <<jitvars, strvars, protvars, resvars, profvars, objs>>

\* rb_objspace_each_objects: the callback gets the next range of the heap,
\* until it answers non-zero or no range is left
each_objects_next ==
    /\ wpc = "e_next"
    /\ IF w.page \in Ranges /\ w.result = 0
       THEN /\ w' = [w EXCEPT !.v = vstart(w.page), !.vend = vend(w.page),
                              !.stride = stride(w.page)]
            /\ wpc' = "i_loop"
       ELSE /\ w' = w
            /\ wpc' = "e_ret"
    /\ UNCHANGED <<jitvars, strvars, protvars, resvars, profvars, objs, visits, insp>>

\* for (; v != (VALUE)vend; v += stride)
for_each_iseq_loop ==
    /\ wpc = "i_loop"
    /\ wpc' = IF w.v # w.vend THEN "i_check" ELSE "i_ret"
    /\ UNCHANGED <<jitvars, strvars, protvars, resvars, profvars, objs, w, visits, insp>>

\* void *ptr = asan_poisoned_object_p(v);
for_each_iseq_poisoned_p ==
    /\ wpc = "i_check"
    /\ w' = [w EXCEPT !.ptr = asan_poisoned_object_p(objs, w.v)]
    /\ wpc' = "i_unpoison"
    /\ UNCHANGED <<jitvars, strvars, protvars, resvars, profvars, objs, visits, insp>>

\* asan_unpoison_object(v, false);
for_each_iseq_unpoison ==
    /\ wpc = "i_unpoison"
    /\ objs' = asan_unpoison_object(objs, w.v)
    /\ wpc' = "i_test"
    /\ UNCHANGED <<jitvars, strvars, protvars, resvars, profvars, w, visits, insp>>

\* if (rb_obj_is_iseq(v)): a read of the object, which the instrumentation
\* stops if the object is poisoned
for_each_iseq_test ==
    /\ wpc = "i_test"
    /\ insp' = Append(insp, w.v)
    /\ wpc' = IF objs[w.v].poisoned THEN "asan_error"
              ELSE IF rb_obj_is_iseq(objs, w.v) THEN "i_callback"
              ELSE "i_repoison"
    /\ UNCHANGED <<jitvars, strvars, protvars, resvars, profvars, objs, w, visits>>

\* callback(iseq);
for_each_iseq_callback ==
    /\ wpc = "i_callback"
    /\ visits' = Append(visits, w.v)
    /\ wpc' = "i_repoison"
    /\ UNCHANGED <<jitvars, strvars, protvars, resvars, profvars, objs, w, insp>>

\* Variant: the object stays unpoisoned
for_each_iseq_repoison_never ==
    /\ wpc = "i_repoison"
    /\ w' = [w EXCEPT !.v = @ + w.stride]
    /\ wpc' = "i_loop"
    /\ UNCHANGED <<jitvars, strvars, protvars, resvars, profvars, objs, visits, insp>>

\* asan_poison_object_if(ptr, v);  and v += stride
for_each_iseq_repoison ==
    /\ wpc = "i_repoison"
    /\ objs' = asan_poison_object_if(objs, w.ptr, w.v)
    /\ w' = [w EXCEPT !.v = @ + w.stride]
    /\ wpc' = "i_loop"
    /\ UNCHANGED <<jitvars, strvars, protvars, resvars, profvars, visits, insp>>

\* Variant: the range callback asks the enumeration to stop
for_each_iseq_return_stop ==
    /\ wpc = "i_ret"
    /\ w' = [w EXCEPT !.result = 1, !.page = @ + 1]
    /\ wpc' = "e_next"
    /\ UNCHANGED <<jitvars, strvars, protvars, resvars, profvars, objs, visits, insp>>

\* return 0;
for_each_iseq_return ==
    /\ wpc = "i_ret"
    /\ w' = [w EXCEPT !.result = 0, !.page = @ + 1]
    /\ wpc' = "e_next"
    /\ UNCHANGED <<jitvars, strvars, protvars, resvars, profvars, objs, visits, insp>>

\* rb_yjit_for_each_iseq returns
for_each_iseq_done ==
    /\ wpc = "e_ret"
    /\ w' = NoWalk
    /\ visits' = <<>>
    /\ insp' = <<>>
    /\ wpc' = "idle"
    /\ UNCHANGED <<jitvars, strvars, protvars, resvars, profvars, objs>>

\* ------------------------------------------------------ profiling export
\* A VALUE has VALUE_BITS bits; intptr_t is the signed type of that width.
VALUE_BITS == 2
VALUE_RANGE == 2 ^ VALUE_BITS
\* the frames a sample can name: the lowest and highest VALUE and one more
FrameValues == {0, 1, VALUE_RANGE - 1}
\* the two entries that close a record
TrailPairs == {<<1, 2>>, <<2, 0>>}
\* the first line number of yjit_line_samples
LineValues == {0, 1}

\* PTR2NUM(x): rb_int2inum((intptr_t)(void *)(x))
PTR2NUM(x) == IF x >= VALUE_RANGE \div 2 THEN x - VALUE_RANGE ELSE x
\* SIZET2NUM, INT2NUM: the Integer of the same value
SIZET2NUM(x) == x
INT2NUM(x) == x

\* One record of the samples: the frame count, the frames, two entries
SampleRecords ==
    UNION {{<<num>> \o fs \o t : fs \in [1..num -> FrameValues],
                                t \in TrailPairs} : num \in 0..MaxFrames}
RECURSIVE SamplesOf(_)
SamplesOf(n) ==
    IF n = 0 THEN {<<>>}
    ELSE {<<>>} \cup {rec \o rest : rec \in SampleRecords,
                                   rest \in SamplesOf(n - 1)}

\* rb_profile_frame_full_label, _absolute_path, _path, _first_lineno
rb_profile_frame_full_label(frame) == <<"label", frame>>
rb_profile_frame_absolute_path(frame) ==
    IF frame = 0 THEN <<"nil">> ELSE <<"abs", frame>>
rb_profile_frame_path(frame) == <<"path", frame>>
rb_profile_frame_first_lineno(frame) == frame % 2

Qnil == [nil |-> TRUE]
\* rb_hash_aref: the value of the key, or nil
rb_hash_aref(hash, key) ==
    IF \E i \in 1..Len(hash) : hash[i].key = key
    THEN (CHOOSE en \in {hash[i] : i \in 1..Len(hash)} : en.key = key).val
    ELSE Qnil
\* rb_hash_aset: the value of the key is replaced, or the pair is added
rb_hash_aset(hash, key, val) ==
    IF \E i \in 1..Len(hash) : hash[i].key = key
    THEN [i \in 1..Len(hash) |->
            IF hash[i].key = key THEN [key |-> key, val |-> val] ELSE hash[i]]
    ELSE Append(hash, [key |-> key, val |-> val])
RTEST(x) == x # Qnil

\* The record of a frame as rb_yjit_add_frame builds it (line is set only
\* if it is not 0); at is where in the samples the frame was met
frame_info(frame, at) ==
    LET name == rb_profile_frame_full_label(frame)
        abs == rb_profile_frame_absolute_path(frame)
        file == IF abs = <<"nil">> THEN rb_profile_frame_path(frame) ELSE abs
        line == rb_profile_frame_first_lineno(frame)
    IN  [name |-> name, file |-> file, samples |-> INT2NUM(0),
         total_samples |-> INT2NUM(0), edges |-> <<>>, lines |-> <<>>,
         line |-> IF line # 0 THEN <<line>> ELSE <<>>, at |-> at]

\* Variant: the record of a frame is built at every occurrence
rb_yjit_add_frame_replace(hash, frame, at) ==
    rb_hash_aset(hash, PTR2NUM(frame), frame_info(frame, at))

rb_yjit_add_frame(hash, frame, at) ==
    LET frame_id == PTR2NUM(frame)
    IN  IF RTEST(rb_hash_aref(hash, frame_id))
        THEN hash
        ELSE rb_hash_aset(hash, frame_id, frame_info(frame, at))

NoDict == [yjit_raw_samples |-> <<>>, yjit_line_samples |-> <<>>,
           samples_len |-> 0, idx |-> 0, num |-> 0, o |-> 0,
           raw_samples |-> <<>>, line_samples |-> <<>>, frames |-> <<>>,
           result |-> <<>>]

\* A call of rb_yjit_exit_locations_dict with well-formed samples, up to
\* the loop
call_exit_locations_dict ==
    /\ dpc = "idle"
    /\ \E raw \in SamplesOf(MaxSamples) : \E line0 \in LineValues :
          ed' = [NoDict EXCEPT
                   !.yjit_raw_samples = raw,
                   !.yjit_line_samples = [i \in 1..Len(raw) |-> line0 + i - 1],
                   !.samples_len = Len(raw)]
    /\ dpc' = "d_while"
    /\ UNCHANGED <<jitvars, strvars, protvars, resvars, walkvars>>

\* while (idx < samples_len)
dict_while ==
    /\ dpc = "d_while"
    /\ dpc' = IF ed.idx < ed.samples_len THEN "d_head" ELSE "d_result"
    /\ UNCHANGED <<jitvars, strvars, protvars, resvars, walkvars, ed>>

\* num and line_num are read and pushed
dict_head ==
    /\ dpc = "d_head"
    /\ ed' = [ed EXCEPT
               !.num = ed.yjit_raw_samples[ed.idx + 1],
               !.idx = @ + 1,
               !.o = 0,
               !.raw_samples =
                   Append(@, SIZET2NUM(ed.yjit_raw_samples[ed.idx + 1])),
               !.line_samples =
                   Append(@, INT2NUM(ed.yjit_line_samples[ed.idx + 1]))]
    /\ dpc' = "d_for"
    /\ UNCHANGED <<jitvars, strvars, protvars, resvars, walkvars>>

\* for (int o = 0; o < num; o++)
dict_for ==
    /\ dpc = "d_for"
    /\ dpc' = IF ed.o < ed.num THEN "d_frame" ELSE "d_tail"
    /\ UNCHANGED <<jitvars, strvars, protvars, resvars, walkvars, ed>>

\* rb_yjit_add_frame(frames, yjit_raw_samples[idx]); the pushes; idx++
dict_frame ==
    /\ dpc = "d_frame"
    /\ ed' = [ed EXCEPT
               !.frames = rb_yjit_add_frame(@, ed.yjit_raw_samples[ed.idx + 1],
                                            ed.idx),
               !.raw_samples =
                   Append(@, SIZET2NUM(ed.yjit_raw_samples[ed.idx + 1])),
               !.line_samples =
                   Append(@, INT2NUM(ed.yjit_line_samples[ed.idx + 1])),
               !.idx = @ + 1,
               !.o = @ + 1]
    /\ dpc' = "d_for"
    /\ UNCHANGED <<jitvars, strvars, protvars, resvars, walkvars>>

\* the two entries after the frames are pushed
dict_tail ==
    /\ dpc = "d_tail"
    /\ ed' = [ed EXCEPT
               !.raw_samples =
                   @ \o <<SIZET2NUM(ed.yjit_raw_samples[ed.idx + 1]),
                          SIZET2NUM(ed.yjit_raw_samples[ed.idx + 2])>>,
               !.line_samples =
                   @ \o <<INT2NUM(ed.yjit_line_samples[ed.idx + 1]),
                          INT2NUM(ed.yjit_line_samples[ed.idx + 2])>>,
               !.idx = @ + 2]
    /\ dpc' = "d_while"
    /\ UNCHANGED <<jitvars, strvars, protvars, resvars, walkvars>>

\* raw, lines and frames are set in the result
dict_result ==
    /\ dpc = "d_result"
    /\ ed' = [ed EXCEPT !.result = [raw |-> ed.raw_samples,
                                  lines |-> ed.line_samples,
                                  frames |-> ed.frames]]
    /\ dpc' = "d_ret"
    /\ UNCHANGED <<jitvars, strvars, protvars, resvars, walkvars>>

\* return result;
dict_return ==
    /\ dpc = "d_ret"
    /\ ed' = NoDict
    /\ dpc' = "idle"
    /\ UNCHANGED <<jitvars, strvars, protvars, resvars, walkvars>>

\* ------------------------------------------------------- specifications
Init ==
    /\ pc = [c \in Ctx |-> "run"]
    /\ lock_owner = NoCtx
    /\ lock_rec = 0
    /\ barrier_waiting = FALSE
    /\ tok = [c \in Ctx |-> 0]
    /\ lev = [c \in Ctx |-> 0]
    /\ ret = [c \in Ctx |-> "run"]
    /\ iseq = [c \in Ctx |-> NoUnit]
    /\ code_ptr = [c \in Ctx |-> 0]
    /\ success = [c \in Ctx |-> TRUE]
    /\ jit_func = [u \in Units |-> 0]
    /\ seen = [c \in Ctx |-> NoRead]
    /\ pre_func = [c \in Ctx |-> 0]
    /\ entry_rec = [c \in Ctx |-> 0]
    /\ state = [u \in Units |-> "Uninstrumented"]
    /\ cleared = [u \in Units |-> FALSE]
    /\ ever_cleared = [u \in Units |-> FALSE]
    /\ heap = [k \in Slots |-> Free]
    /\ str = [s \in Strs |-> [ptr |-> NULL, strbuf |-> NULL, capa |-> 0]]
    /\ spc = "idle"
    /\ a = NoCall
    /\ r = NoRealloc
    /\ e = NoEntry
    /\ ppc = "idle"
    /\ prot = [g \in Pages |-> "none"]
    /\ m = NoProt
    /\ vpc = "idle"
    /\ v = NoReserve
    /\ wpc = "idle"
    /\ w = NoWalk
    /\ objs = [x \in SlotAddrs |-> [type |-> "none", poisoned |-> TRUE]]
    /\ visits = <<>>
    /\ insp = <<>>
    /\ dpc = "idle"
    /\ ed = NoDict

GateSteps(c) ==
    \/ park(c)
    \/ resume(c)
    \/ read_done(c)
    \/ compile_lock_enter(c)
    \/ compile_barrier(c)
    \/ compile_barrier_done(c)
    \/ compile_gen(c)
    \/ compile_install(c)
    \/ compile_lock_leave(c)
    \/ compile_return(c)
    \/ call_lock_then_barrier(c)
    \/ lock_then_barrier_enter(c)
    \/ lock_then_barrier_barrier(c)
    \/ lock_then_barrier_done(c)
    \/ rb_yjit_vm_unlock(c)
    \/ rb_iseq_reset_jit_func(c)

Next ==
    \E c \in Ctx :
        \/ GateSteps(c)
        \/ \E u \in Units : read_jit_func(c, u)
        \/ \E u \in Units : call_compile(c, u)
        \/ \E u \in Units : call_reset(c, u)

NextSM ==
    \E c \in Ctx :
        \/ GateSteps(c)
        \/ \E u \in Units : read_jit_func(c, u)
        \/ \E u \in Units : call_compile_sm(c, u)
        \/ \E u \in Units : call_reset_sm(c, u)

NextStr ==
    \/ \E s \in Strs : \E len \in 0..MaxCap : \E termlen \in 0..1 :
          rb_mmtk_str_new_strbuf_impl(s, len, termlen)
    \/ \E s \in Strs : \E t \in Strs : \E capa \in 0..MaxCap :
       \E off \in 0..MaxCap : \E n \in 0..MaxCap :
          call_new_strbuf_copy(s, t, capa, off, n)
    \/ \E s \in Strs : \E new_size \in 0..MaxCap : \E old_size \in 0..MaxCap :
          rb_mmtk_str_sized_realloc_n_impl(s, new_size, old_size)
    \/ attach_alloc
    \/ attach_copy
    \/ attach_setptr
    \/ attach_setbuf
    \/ attach_return
    \/ realloc_set_capa
    \/ realloc_return

Spec == Init /\ [][Next]_vars

SpecStr == Init /\ [][NextStr]_vars

\* callers that keep the contract and callers that break it
NextStrAny ==
    \/ NextStr
    \/ \E s \in Strs : \E t \in Strs : \E capa \in 0..MaxCap :
       \E off \in 0..MaxCap : \E n \in 0..MaxCap :
          call_new_strbuf_copy_over(s, t, capa, off, n)

SpecStrAny == Init /\ [][NextStrAny]_vars

NextProt ==
    \/ \E mem_block \in Blocks : \E mem_size \in 0..MaxSize :
       \E fails \in BOOLEAN :
          call_mark_executable(mem_block, mem_size, fails)
    \/ mark_executable_test
    \/ mark_executable_mprotect
    \/ mark_executable_return
    \/ \E mem_block \in Blocks : \E mem_size \in 0..MaxSize :
       \E fails \in BOOLEAN :
          call_mark_writable(mem_block, mem_size, fails)
    \/ mark_writable_mprotect
    \/ mark_writable_return

SpecProt == Init /\ [][NextProt]_vars

SpecSM == Init /\ [][NextSM]_vars

NextRes ==
    \/ \E mem_size \in 0..MaxSize : \E cfunc \in CodeAddrs :
       \E page_size \in PageSizes :
          call_reserve_addr_space(mem_size, cfunc, page_size)
    \/ \E res \in MmapResults(v.req_addr) : reserve_probe_mmap(res)
    \/ reserve_probe_test
    \/ \E res \in MmapResults(NULL) : reserve_fallback(res)
    \/ reserve_check
    \/ reserve_return

SpecRes == Init /\ [][NextRes]_vars

NextWalk ==
    \/ \E x \in SlotAddrs : \E type \in ObjTypes : \E poisoned \in BOOLEAN :
          mutate(x, type, poisoned)
    \/ call_for_each_iseq
    \/ each_objects_next
    \/ for_each_iseq_loop
    \/ for_each_iseq_poisoned_p
    \/ for_each_iseq_unpoison
    \/ for_each_iseq_test
    \/ for_each_iseq_callback
    \/ for_each_iseq_repoison
    \/ for_each_iseq_return
    \/ for_each_iseq_done

SpecWalk == Init /\ [][NextWalk]_vars

NextProf ==
    \/ call_exit_locations_dict
    \/ dict_while
    \/ dict_head
    \/ dict_for
    \/ dict_frame
    \/ dict_tail
    \/ dict_result
    \/ dict_return

SpecProf == Init /\ [][NextProf]_vars

\* ---------------------------------------------------------------- claims
\* c holds the gate: it owns the VM lock, its barrier has completed and
\* every other context sleeps
HoldsGate(c) ==
    /\ lock_owner = c
    /\ lock_rec >= 1
    /\ ~barrier_waiting
    /\ \A d \in Ctx \ {c} : Blocked(d)

\* c is between the return of an enterBarrier and the matching leave
InGate(c) ==
    \/ pc[c] \in {"inside", "reset"}
    \/ pc[c] \in {"c_gen", "c_write", "c_leave"}
    \/ /\ pc[c] \in {"c_enter", "c_barrier", "c_bwait", "c_ret"}
       /\ ret[c] = "inside"

\* C1: every write of jit_func by rb_yjit_compile_iseq is a step of a
\* context that holds the VM lock with the barrier completed, and that
\* still holds it after the write.
C1_InstallUnderGate ==
    [][\A c \in Ctx :
          (pc[c] = "c_write" /\ pc'[c] # "c_write")
              => (HoldsGate(c) /\ HoldsGate(c)')]_vars

\* a compiled entry point was installed while another context sleeps
C1_Witness ==
    \E c \in Ctx : \E d \in Ctx \ {c} :
        /\ pc[c] = "c_leave"
        /\ code_ptr[c] # 0
        /\ jit_func[iseq[c]] = code_ptr[c]
        /\ pc[d] = "parked"

\* C2: every execution of rb_iseq_reset_jit_func is a step of a context
\* that holds the gate before and after it, and it leaves the entry
\* pointer of the unit null.
C2_ResetUnderGate ==
    [][\A c \in Ctx :
          (pc[c] = "reset" /\ pc'[c] # "reset")
              => /\ HoldsGate(c)
                 /\ HoldsGate(c)'
                 /\ jit_func'[iseq[c]] = 0]_vars

\* a unit was reset by a context still inside the gate, another one parked
C2_Witness ==
    \E c \in Ctx : \E d \in Ctx \ {c} : \E u \in Units :
        /\ pc[c] = "inside"
        /\ cleared[u]
        /\ jit_func[u] = 0
        /\ pc[d] = "parked"

\* C3: no two contexts are inside the gate together, and while one is
\* inside every other context sleeps: none executes interpreted or
\* compiled code.
C3_GateMutex ==
    \A c \in Ctx : \A d \in Ctx \ {c} :
        InGate(c) => (~InGate(d) /\ ~Running(d) /\ Blocked(d))

\* one context inside the gate while another contends for it
C3_Witness ==
    \E c \in Ctx : \E d \in Ctx \ {c} :
        /\ pc[c] = "inside"
        /\ pc[d] = "g_enter"

\* C4: when rb_yjit_compile_iseq is about to return, on either path, the
\* caller holds the VM lock at the recursion level it held at the call.
C4_CompileReleases ==
    \A c \in Ctx : pc[c] = "c_ret" => HeldLevel(c) = entry_rec[c]

\* a failed compile called from inside the gate has released its level
C4_Witness ==
    \E c \in Ctx :
        /\ pc[c] = "c_ret"
        /\ ~success[c]
        /\ entry_rec[c] = 1
        /\ HeldLevel(c) = 1

\* C5: compile returns true exactly when the generator returned code, and
\* the entry pointer of the unit then is that code; when the generator
\* returned none, compile returns false and the entry pointer is null.
C5_CompileResult ==
    \A c \in Ctx :
        pc[c] \in {"c_leave", "c_ret"}
            => /\ success[c] <=> (code_ptr[c] # 0)
               /\ jit_func[iseq[c]] = code_ptr[c]

\* a failed compile of a unit that had an entry pointer cleared it
C5_Witness ==
    \E c \in Ctx :
        /\ pc[c] = "c_ret"
        /\ ~success[c]
        /\ pre_func[c] # 0
        /\ jit_func[iseq[c]] = 0

\* C6 as stated: a read of the entry pointer of a unit that was
\* invalidated at some earlier time returns null.
C6_ReadNullEver ==
    \A c \in Ctx : (pc[c] = "read" /\ seen[c].ev) => seen[c].v = 0

\* C6: a read of the entry pointer of a unit that was invalidated and
\* not successfully compiled since returns null.
C6_ReadNullUntilRecompiled ==
    \A c \in Ctx : (pc[c] = "read" /\ seen[c].cl) => seen[c].v = 0

\* a context other than the invalidating one read null after the release
C6_Witness ==
    \E c \in Ctx :
        /\ pc[c] = "read"
        /\ seen[c].cl
        /\ seen[c].v = 0
        /\ lock_owner = NoCtx

\* The moves of section 4.4
AllowedMoves ==
    {<<"Uninstrumented", "Compiling">>, <<"Compiling", "Compiled">>,
     <<"Compiling", "Failed">>, <<"Compiled", "Invalidated">>,
     <<"Invalidated", "Compiling">>}

Min(x, y) == IF x <= y THEN x ELSE y

\* C8: when the sized reallocation is done, min(old_size, new_size) bytes
\* were copied, the new buffer of the owner has capacity new_size and
\* starts with the first min(old_size, new_size) bytes of the old buffer,
\* the recorded capacity of the owner is new_size, and a shrinking call
\* ends like any other.
C8_ReallocCopies ==
    spc = "r_ret" =>
        LET s == r.str
            k == SlotOf(str[s].strbuf)
            n == Min(r.old_size, r.new_size)
        IN  /\ e.copied = n
            /\ str[s].strbuf # e.strbuf
            /\ str[s].ptr = rb_mmtk_strbuf_to_chars(str[s].strbuf)
            /\ heap[k] # Free
            /\ heap[k].capa = r.new_size
            /\ SubSeq(heap[k].ary, 1, n) = SubSeq(e.old_ary, 1, n)
            /\ str[s].capa = r.new_size

\* a populated buffer was shrunk: the tail was dropped
C8_Witness ==
    /\ spc = "r_ret"
    /\ 0 < r.new_size
    /\ r.new_size < r.old_size
    /\ \E i \in 1..r.new_size : e.old_ary[i] # 0

\* The source of the running call is the buffer the owner held at entry
AliasCall == a.src_obj # NULL /\ a.src_obj = e.strbuf

\* C9: in a call whose source is the owner's current buffer, the owner's
\* content pointer, buffer slot and capacity are those of call entry until
\* the copy is done, and the bytes copied into the new buffer are those
\* the source held at call entry.
C9_SelfAliasSafe ==
    AliasCall =>
        /\ spc \in {"a_alloc", "a_copy"} =>
              /\ str[a.str].ptr = e.ptr
              /\ str[a.str].strbuf = e.strbuf
              /\ str[a.str].capa = e.capa
        /\ spc \in {"a_setptr", "a_setbuf", "a_ret"} =>
              /\ e.copied = a.copy_size
              /\ SubSeq(heap[SlotOf(a.strbuf)].ary, 1, a.copy_size) = e.bytes

\* a self-copy is complete and the owner now holds the new buffer
C9_Witness ==
    /\ AliasCall
    /\ spc = "a_ret"
    /\ a.copy_size >= 1
    /\ str[a.str].strbuf = a.strbuf
    /\ str[a.str].strbuf # e.strbuf
    /\ \E i \in 1..a.copy_size : e.bytes[i] # 0

\* C10: a call of rb_yjit_mark_executable with mem_size 0 never makes the
\* OS protection call, changes no protection, never aborts, and its next
\* step is its return, for every address and also when the OS call would
\* have failed.
C10_ZeroSizeExecutable ==
    /\ []((m.op = "exec" /\ m.mem_size = 0) =>
            /\ ppc \in {"x_test", "x_ret"}
            /\ ~m.os_called
            /\ prot = m.entry)
    /\ [][(ppc = "x_test" /\ m.mem_size = 0) => ppc' = "x_ret"]_vars

\* a zero-length call returned although the OS would have refused
C10_Witness ==
    /\ ppc = "x_ret"
    /\ m.op = "exec"
    /\ m.mem_size = 0
    /\ m.mem_block # 0
    /\ m.os_fails
    /\ ~m.os_called

\* C11: rb_yjit_mark_writable makes the OS call and returns false when it
\* failed and true when it succeeded, and never reaches the fatal abort;
\* a failure of the OS call also leaves the protections as they were.
\* rb_yjit_mark_executable with a non-zero size whose OS call failed is in
\* the fatal abort, which is reached in no other way and is never left.
C11_ProtectFailure ==
    /\ [][(ppc = "abort") => (ppc' = "abort")]_vars
    /\ [][(ppc = "w_mprotect") => (ppc' = "w_ret")]_vars
    /\ []((ppc = "w_ret") =>
            (/\ m.os_called
             /\ m.result = ~m.os_fails
             /\ (m.os_fails => prot = m.entry)))
    /\ []((m.op = "write") => (ppc \in {"w_mprotect", "w_ret"}))
    /\ []((m.op = "exec" /\ m.os_called /\ m.os_fails) => (ppc = "abort"))
    /\ []((ppc = "abort") =>
            (/\ m.op = "exec"
             /\ m.mem_size # 0
             /\ m.os_called
             /\ m.os_fails))

\* a refused rb_yjit_mark_writable is about to return false
C11_Witness ==
    /\ ppc = "w_ret"
    /\ m.op = "write"
    /\ m.mem_size # 0
    /\ m.os_fails
    /\ m.os_called
    /\ m.result = FALSE

\* The least multiple of the page size that is not below the code address
PageAligned == CHOOSE x \in v.cfunc_sample_addr..(v.cfunc_sample_addr + v.page_size - 1) :
                  x % v.page_size = 0
\* How many addresses PageAligned + k * ProbeStep lie below code + INT32_MAX
NearbyCount == Cardinality({k \in 0..INT32_MAX :
                  PageAligned + k * ProbeStep < v.cfunc_sample_addr + INT32_MAX})
\* The free-form attempt was made and failed
FreeFormFailed ==
    /\ Len(v.log) > 0
    /\ ~v.log[Len(v.log)].fixed
    /\ v.log[Len(v.log)].res = MAP_FAILED

\* What the attempts made so far and the position of the call must be
C12_Attempts ==
    vpc # "idle" =>
        /\ vpc \notin {"v_mmap"} => Len(v.log) >= 1
        /\ Len(v.log) <= NearbyCount + 1
        /\ NearbyCount <= (INT32_MAX \div ProbeStep) + 1
        /\ \A i \in 1..Len(v.log) :
              /\ v.log[i].fixed =>
                    /\ i <= NearbyCount
                    /\ v.log[i].addr = PageAligned + (i - 1) * ProbeStep
                    /\ v.log[i].addr < v.cfunc_sample_addr + INT32_MAX
              /\ ~v.log[i].fixed =>
                    /\ i = NearbyCount + 1
                    /\ v.log[i].addr = NULL
                    /\ \A j \in 1..(i - 1) : v.log[j].fixed
              /\ i < Len(v.log) => v.log[i].res = MAP_FAILED
        /\ vpc = "abort" => FreeFormFailed
        /\ FreeFormFailed => vpc \in {"v_check", "abort"}
        /\ vpc = "v_ret" =>
              /\ v.mem_block # MAP_FAILED
              /\ v.mem_block = v.log[Len(v.log)].res

\* C12: the nearby attempts of rb_yjit_reserve_addr_space are made at the
\* page-aligned code address and then at successive ProbeStep steps, all
\* below the code address plus INT32_MAX, and stop at the first success, so
\* their number is bounded; the attempt without an address comes only
\* after every nearby address was tried and failed; the fatal abort is
\* reached exactly when that attempt failed too and is never left;
\* otherwise the call returns the first successful reservation.
C12_ReserveProbing ==
    /\ []C12_Attempts
    /\ [][(vpc = "v_check") =>
             (vpc' = IF FreeFormFailed THEN "abort" ELSE "v_ret")]_vars
    /\ [][(vpc = "abort") => (vpc' = "abort")]_vars

\* every nearby address above the uint32_t range was refused and the
\* attempt without an address succeeded
C12_Witness ==
    /\ vpc = "v_ret"
    /\ v.cfunc_sample_addr > UINT32_RANGE
    /\ v.page_size > 1
    /\ v.cfunc_sample_addr % v.page_size # 0
    /\ Len(v.log) >= 3
    /\ ~v.log[Len(v.log)].fixed
    /\ v.mem_block = Elsewhere

\* The slots of the heap in the order of the ranges and of their addresses
WalkOrder ==
    [i \in 1..(Cardinality(Ranges) * SlotsPerRange) |->
        LET g == ((i - 1) \div SlotsPerRange) + 1
            k == (i - 1) % SlotsPerRange
        IN  vstart(g) + k * stride(g)]

\* C13: the callback of rb_yjit_for_each_iseq is invoked with code units
\* only and with none twice; the slots tested are the slots of the ranges
\* in order, each at its stride; and when the walk is over every slot of
\* every range was tested and every code unit of the heap was called back
\* exactly once.
C13_WalkComplete ==
    /\ \A i \in 1..Len(visits) :
          /\ visits[i] \in SlotAddrs
          /\ objs[visits[i]].type = "iseq"
          /\ \A j \in 1..Len(visits) : visits[j] = visits[i] => j = i
    /\ Len(insp) <= Len(WalkOrder)
    /\ \A i \in 1..Len(insp) : insp[i] = WalkOrder[i]
    /\ wpc = "e_ret" =>
          /\ insp = WalkOrder
          /\ \A x \in SlotAddrs :
                objs[x].type = "iseq" =>
                    Cardinality({i \in 1..Len(visits) : visits[i] = x}) = 1

\* a walk is over that met code units in both ranges among other objects
\* and free slots
C13_Witness ==
    /\ wpc = "e_ret"
    /\ \A g \in Ranges : \E x \in SlotsOf(g) : objs[x].type = "iseq"
    /\ \E x \in SlotAddrs : objs[x].type = "other"
    /\ \E x \in SlotAddrs : objs[x].type = "none"
    /\ Len(visits) = Cardinality({x \in SlotAddrs : objs[x].type = "iseq"})

\* The walk is at slot x, between reading its poisoning and restoring it
Inspecting(x) ==
    /\ wpc \in {"i_unpoison", "i_test", "i_callback", "i_repoison"}
    /\ w.v = x

\* C17: while rb_yjit_for_each_iseq runs, the object under inspection is
\* unpoisoned when it is tested for being a code unit and when the
\* callback runs, so the instrumentation never stops the walk, and every
\* other object, those the walk has moved past included, is poisoned
\* exactly if it was when the walk began.
C17_PoisonRestored ==
    /\ wpc # "asan_error"
    /\ wpc # "idle" =>
          \A x \in SlotAddrs :
              /\ (Inspecting(x) /\ wpc \in {"i_test", "i_callback"}) =>
                    ~objs[x].poisoned
              /\ Inspecting(x) => w.ptr = w.entry[x]
              /\ ~Inspecting(x) => objs[x].poisoned = w.entry[x]

\* the walk went past a poisoned code unit, called back on it and left it
\* poisoned, and past an unpoisoned object
C17_Witness ==
    /\ wpc = "e_next"
    /\ \E x \in SlotAddrs :
          /\ w.entry[x]
          /\ objs[x].poisoned
          /\ \E i \in 1..Len(visits) : visits[i] = x
    /\ \E x \in SlotAddrs :
          /\ ~w.entry[x]
          /\ \E i \in 1..Len(insp) : insp[i] = x

\* Where the frame entries of well-formed samples are, from entry i on
RECURSIVE FramePositions(_, _)
FramePositions(raw, i) ==
    IF i > Len(raw) THEN {}
    ELSE ((i + 1)..(i + raw[i])) \cup FramePositions(raw, i + raw[i] + 3)

\* The first frame entry of the samples that names frame f
FirstPosition(raw, f) ==
    CHOOSE p \in FramePositions(raw, 1) :
        /\ raw[p] = f
        /\ \A q \in FramePositions(raw, 1) : raw[q] = f => p <= q

\* The frames mapping of the result is right for the samples
FramesExact ==
    LET raw == ed.yjit_raw_samples
        fr == ed.result.frames
        ids == {raw[p] : p \in FramePositions(raw, 1)}
    IN  /\ {fr[i].key : i \in 1..Len(fr)} = {PTR2NUM(f) : f \in ids}
        /\ Len(fr) = Cardinality(ids)
        /\ \A f \in ids :
              \E i \in 1..Len(fr) :
                  /\ fr[i].key = PTR2NUM(f)
                  /\ fr[i].val.at = FirstPosition(raw, f) - 1
                  /\ fr[i].val.name = rb_profile_frame_full_label(f)

\* C14: for well-formed samples the frames mapping that
\* rb_yjit_exit_locations_dict returns has one key for every distinct
\* frame of the samples and no other key, the record of a key is the one
\* built when the frame was met first, a record in the mapping is never
\* replaced or changed while the samples are read, and the counters of
\* every record are zero.
C14_ExportShape ==
    /\ []((dpc = "d_ret") => FramesExact)
    /\ [](\A i \in 1..Len(ed.frames) :
             /\ ed.frames[i].val.samples = 0
             /\ ed.frames[i].val.total_samples = 0)
    /\ [][(dpc' # "idle") =>
             (/\ Len(ed'.frames) >= Len(ed.frames)
              /\ \A i \in 1..Len(ed.frames) : ed'.frames[i] = ed.frames[i])]_vars

\* two samples named the same frame, whose key is negative, and the
\* mapping holds it once
C14_Witness ==
    /\ dpc = "d_ret"
    /\ Cardinality(FramePositions(ed.yjit_raw_samples, 1)) = 2
    /\ Len(ed.result.frames) = 1
    /\ ed.result.frames[1].key < 0
    /\ ed.result.frames[1].val.at = 1

C16_OwnerConsistent ==
    /\ spc = "a_ret" =>
          /\ str[a.str].strbuf = a.strbuf
          /\ str[a.str].strbuf # NULL
          /\ str[a.str].ptr = rb_mmtk_strbuf_to_chars(str[a.str].strbuf)
          /\ heap[SlotOf(a.strbuf)] # Free
          /\ heap[SlotOf(a.strbuf)].capa = a.capa
    /\ spc \in {"r_capa", "r_ret"} =>
          /\ str[r.str].strbuf # NULL
          /\ str[r.str].ptr = rb_mmtk_strbuf_to_chars(str[r.str].strbuf)
          /\ heap[SlotOf(str[r.str].strbuf)].capa = r.new_size
    /\ spc = "idle" =>
          \A s \in Strs :
              str[s].strbuf # NULL =>
                  str[s].ptr = rb_mmtk_strbuf_to_chars(str[s].strbuf)

\* the attach of an empty buffer is about to return to an owner that held
\* another buffer before
C16_Witness ==
    /\ spc = "a_ret"
    /\ a.caller = "new"
    /\ a.capa >= 1
    /\ e.strbuf # NULL
    /\ e.ptr # str[a.str].ptr
    /\ str[a.str].strbuf = a.strbuf

\* C18: a call of rb_mmtk_str_new_strbuf_copy_impl with copy_size > capa
\* goes no further than its assertion: it copies nothing, never reaches
\* the attachment of the buffer or its return, and no buffer ever holds
\* more bytes than its capacity.
C18_AssertStops ==
    /\ (spc \in {"a_alloc", "a_copy", "a_setptr", "a_setbuf", "a_ret",
                  "assert_fail"}
         /\ a.copy_size > a.capa) =>
            /\ spc \in {"a_alloc", "a_copy", "assert_fail"}
            /\ e.copied <= a.capa
    /\ \A k \in Slots : heap[k] # Free => Len(heap[k].ary) <= heap[k].capa

====
